---- MODULE Spec2Model ----
(***************************************************************************)
(* Model of hdl_registers: the RegisterArray data structure                *)
(* (hdl_registers/register_array.py), the enumeration field                *)
(* (hdl_registers/enum.py, with the EnumType conversions it relies on),    *)
(* the fields of a Register, the Integer field and the RegisterList.       *)
(***************************************************************************)
EXTENDS Integers, Sequences, FiniteSets, TLC

(* ------------------------------ bounds -------------------------------- *)
MaxBase == 1
MaxLength == 3
MaxRegisters == 3
MaxArrayIndex == 4
MaxNegativeIndex == 2
MaxMembers == 4
MaxCode == 6
MaxFields == 5
MaxExcess == 12
MaxObjects == 3

(* ----------------------------- input sets ----------------------------- *)
Names == {"a", "b"}
Modes == {"r", "w", "r_w"}
AtomicValues == {"none", "row", "all"}
(* Declared integer values an enumeration may use (test_enum.py uses       *)
(* 2, 3, 6, 12; a SequentialEnum uses 0, 1, 2, ...).                       *)
EnumValues == {0, 1, 2, 3, 6, 12}
(* other_enum = IntEnum("other", "A B C") has the values 1, 2, 3.          *)
OtherValues == {1, 2, 3}
(* Non-integral numbers presented for encoding, in tenths: 57 is the 5.7  *)
(* of test_enum_type.                                                      *)
FloatTenths == {5, 25, 27, 57, 63, 118}
(* Widths of the bit vectors appended in test_vhdl_typedef.                *)
BitVectorWidths == {2, 6, 8}
(* ExampleUserEnum and ExampleSequentialEnum of                            *)
(* test_register_vhdl_generator.py.                                        *)
(* The integer fields of the tests and the documentation example:         *)
(* plain_integer [-50, 100], burst_length_bytes [1, 256], retry_count      *)
(* [0, 5].                                                                 *)
IntegerRanges == {<<0 - 50, 100>>, <<1, 256>>, <<0, 5>>}
(* set_config_plain_integer(-1024)                                         *)
FarValues == {0 - 1024}
RegisterEnums == {<<2, 3, 6, 12>>, <<0, 1, 2>>}

VARIABLES atomic, base_index, length, registers, last, enum, elast, field,
          enum_base, etype, fields, rlast, ifield, ilast,
          register_objects, llast

arrayVars == <<atomic, base_index, length, registers, last>>
enumVars == <<enum, elast, field>>
declVars == <<enum_base, etype>>
registerVars == <<fields, rlast>>
integerVars == <<ifield, ilast>>
listVars == <<register_objects, llast>>
vars == <<atomic, base_index, length, registers, last, enum, elast, field,
          enum_base, etype, fields, rlast, ifield, ilast,
          register_objects, llast>>

(* ------------------------- hdl_registers.Register --------------------- *)
Register(name, index, mode) == [name |-> name, index |-> index, mode |-> mode]

(* --------------------------- RegisterArray ---------------------------- *)
(* `if self.atomic:` -- None is falsy, "row" and "all" are truthy.         *)
IsAtomic(a) == a /= "none"

ModeConflict_AllOnly(regs, a, mode) ==
    /\ regs /= <<>>
    /\ a = "all"
    /\ mode /= regs[1].mode

ModeConflict_Equal(regs, a, mode) ==
    /\ regs /= <<>>
    /\ IsAtomic(a)
    /\ mode = regs[1].mode

(* The nested ifs that guard the raise in append_register.                *)
ModeConflict(regs, a, mode) ==
    /\ regs /= <<>>
    /\ IsAtomic(a)
    /\ mode /= regs[1].mode

NewIndex_OneBased(regs) == Len(regs) + 1

(* index = len(self.registers)                                            *)
NewIndex(regs) == Len(regs)

RegistersAfterAppend_AppendFirst(regs, a, name, mode) ==
    Append(regs, Register(name, NewIndex(regs), mode))

(* The registers list once append_register has returned or raised.        *)
RegistersAfterAppend(regs, a, name, mode) ==
    IF ModeConflict(regs, a, mode)
    THEN regs
    ELSE Append(regs, Register(name, NewIndex(regs), mode))

(* RegisterArray.index: the highest index occupied by the array.          *)
index == base_index + length * Len(registers) - 1

StartIndexRaises(array_index, len) == array_index >= len

StartIndexValue_ByLength(base, array_index, len, regs) ==
    base + array_index * len

StartIndexValue(base, array_index, len, regs) ==
    base + array_index * Len(regs)

FindRegister(regs, name) ==
    IF \E i \in 1..Len(regs) : regs[i].name = name
    THEN LET i == CHOOSE i \in 1..Len(regs) :
                    /\ regs[i].name = name
                    /\ \A j \in 1..(i - 1) : regs[j].name /= name
         IN  [found |-> TRUE, register |-> regs[i]]
    ELSE [found |-> FALSE, register |-> Register("", 0 - 1, "")]


(* ------------------------------ enumerations --------------------------- *)
(* An enumeration is the sequence of its members' declared integer values  *)
(* in declaration order; a member of the enumeration cls is the record     *)
(* [cls, value].  "E" is the enumeration the EnumType is built on.         *)
Member(cls, value) == [cls |-> cls, value |-> value]

Injective(f) == \A i, j \in DOMAIN f : f[i] = f[j] => i = j

Enumerations ==
    {e \in UNION {[1..n -> EnumValues] : n \in 1..MaxMembers} : Injective(e)}

Members(e) == {Member("E", e[i]) : i \in 1..Len(e)}

Values(e) ==
    Members(e) \cup {Member("other", v) : v \in OtherValues}
               \cup {Member("float", x) : x \in FloatTenths}

RECURSIVE CeilLog2(_)
CeilLog2(n) == IF n <= 1 THEN 0 ELSE 1 + CeilLog2((n + 1) \div 2)

Max(a, b) == IF a >= b THEN a ELSE b

(* enum_bit_width(enum): ceil(log2(member count)), at least 1.             *)
enum_bit_width(e) == Max(1, CeilLog2(Len(e)))

Raised == [raised |-> TRUE, ret |-> 0 - 1]
Returned(v) == [raised |-> FALSE, ret |-> v]

Position(e, v) == CHOOSE i \in 1..Len(e) : e[i] = v

Round_Truncate(tenths) == tenths \div 10

(* The integer a non-integral number is taken as: test_enum_type encodes   *)
(* 5.7 and reads back the member with value 6.  Rounds to the nearest      *)
(* integer, a tie to the even one.                                         *)
Round(tenths) ==
    LET q == tenths \div 10
        r == tenths % 10
    IN  IF r < 5 THEN q
        ELSE IF r > 5 THEN q + 1
        ELSE IF q % 2 = 0 THEN q ELSE q + 1

(* A number is looked up in the enumeration by its integer.                *)
Coerce(value) ==
    IF value.cls = "float" THEN Member("E", Round(value.value)) ELSE value

convert_to_unsigned_binary_DeclaredValue(e, bit_width, value) ==
    LET v == Coerce(value)
    IN  IF v.cls = "E" /\ \E i \in 1..Len(e) : e[i] = v.value
        THEN Returned(v.value)
        ELSE Raised

convert_to_unsigned_binary_ByInteger(e, bit_width, value) ==
    LET v == Coerce(value)
    IN  IF \E i \in 1..Len(e) : e[i] = v.value
        THEN Returned(Position(e, v.value) - 1)
        ELSE Raised

(* EnumType.convert_to_unsigned_binary: the member's ordinal position;     *)
(* fails for a value that is not a member of the declared enumeration.     *)
convert_to_unsigned_binary(e, bit_width, value) ==
    LET v == Coerce(value)
    IN  IF v.cls = "E" /\ \E i \in 1..Len(e) : e[i] = v.value
        THEN Returned(Position(e, v.value) - 1)
        ELSE Raised

(* EnumType.convert_from_unsigned_binary: the member at that ordinal       *)
(* position; fails for a code without a member.                            *)
convert_from_unsigned_binary(e, bit_width, unsigned_binary) ==
    IF unsigned_binary \in 0..(Len(e) - 1)
    THEN Returned(Member("E", e[unsigned_binary + 1]))
    ELSE Raised

RECURSIVE BinaryDigits(_)
BinaryDigits(n) ==
    IF n < 2 THEN <<n>> ELSE Append(BinaryDigits(n \div 2), n % 2)

RECURSIVE ZeroPad(_, _)
ZeroPad(digits, width) ==
    IF Len(digits) >= width THEN digits ELSE ZeroPad(<<0>> \o digits, width)

(* f"{default_value:0{width}b}"                                            *)
FormatBinary(n, width) == ZeroPad(BinaryDigits(n), width)

RECURSIVE BitLength(_)
BitLength(n) == IF n = 0 THEN 0 ELSE 1 + BitLength(n \div 2)

MaxValue(e) == CHOOSE v \in {e[i] : i \in 1..Len(e)} :
                    \A i \in 1..Len(e) : e[i] <= v

EnumField_WidthOfMaxValue(e, default_value) ==
    [width |-> Max(1, BitLength(MaxValue(e))),
     default_value |-> FormatBinary(default_value.value,
                                    Max(1, BitLength(MaxValue(e))))]

EnumField_DefaultOrdinal(e, default_value) ==
    [width |-> enum_bit_width(e),
     default_value |-> FormatBinary(Position(e, default_value.value) - 1,
                                    enum_bit_width(e))]

(* EnumField.__init__: a bit vector of the enumeration's bit width.        *)
EnumField(e, default_value) ==
    [width |-> enum_bit_width(e),
     default_value |-> FormatBinary(default_value.value, enum_bit_width(e))]

NoEnumCall == [op |-> "init", value |-> Member("", 0), code |-> 0,
               raised |-> FALSE, ret |-> 0, decoded |-> Member("", 0)]

NoField == [width |-> 0, default_value |-> <<>>]

NoCall == [op |-> "init", name |-> "", mode |-> "", array_index |-> 0,
           raised |-> FALSE, ret |-> 0, before |-> <<>>]

SequentialEnum_new_FromOne(members) == Len(members) + 1

(* SequentialEnum.__new__: value = len(cls.__members__), the number of     *)
(* members declared so far.                                                *)
SequentialEnum_new(members) == Len(members)

(* EnumType(enum): is_sequential and expected_bit_width.                   *)
is_sequential(e) == e = [i \in 1..Len(e) |-> i - 1]

EnumType(e) == [is_sequential |-> is_sequential(e),
                expected_bit_width |-> enum_bit_width(e)]

NoType == [is_sequential |-> FALSE, expected_bit_width |-> 0]


(* ------------------------------- Register ------------------------------ *)
(* A register word has 32 bits.                                            *)
RegisterWidth == 32

Field(name, base, width) == [name |-> name, base_index |-> base, width |-> width]

(* test_vhdl_typedef appends "ufixed1" twice and "sfixed0" twice to one    *)
(* register and generates code from the result: an append does not compare *)
(* the new name with the names of the fields already there.                *)
FieldNameCollision(flds, name) == FALSE

NextBaseIndex_AfterFirst(flds) ==
    IF flds = <<>> THEN 0 ELSE flds[1].base_index + flds[1].width

(* The first bit after the last occupied bit.                              *)
NextBaseIndex(flds) ==
    IF flds = <<>>
    THEN 0
    ELSE flds[Len(flds)].base_index + flds[Len(flds)].width

WidthOverflow(flds, width) == NextBaseIndex(flds) + width > RegisterWidth

AppendFieldRaises(flds, name, width) ==
    FieldNameCollision(flds, name) \/ WidthOverflow(flds, width)

FieldsAfterAppend(flds, name, width) ==
    IF AppendFieldRaises(flds, name, width)
    THEN flds
    ELSE Append(flds, Field(name, NextBaseIndex(flds), width))

NoFieldCall == [op |-> "init", name |-> "", width |-> 0, raised |-> FALSE,
                before |-> <<>>]

IdleRegister ==
    /\ fields = <<>>
    /\ rlast = NoFieldCall

(* ----------------------------- Integer field -------------------------- *)
RECURSIVE UnsignedWidth(_)
UnsignedWidth(n) == IF n < 2 THEN 1 ELSE 1 + UnsignedWidth(n \div 2)

(* Bits of the smallest two's-complement word that holds n.                *)
SignedWidth(n) == IF n >= 0 THEN UnsignedWidth(n) + 1
                            ELSE UnsignedWidth(0 - n - 1) + 1

(* The smallest width whose unsigned range (min_value >= 0) or             *)
(* two's-complement range (min_value < 0) covers both bounds.              *)
IntegerWidth(min_value, max_value) ==
    IF min_value >= 0
    THEN UnsignedWidth(max_value)
    ELSE Max(SignedWidth(min_value), SignedWidth(max_value))

Integer(min_value, max_value) ==
    [min_value |-> min_value, max_value |-> max_value,
     width |-> IntegerWidth(min_value, max_value)]

IntegerOutOfRange_Exclusive(f, value) ==
    value < f.min_value \/ value >= f.max_value

(* The two assertions of every generated accessor:                         *)
(* field_value >= min_value and field_value <= max_value.                  *)
IntegerOutOfRange(f, value) ==
    value < f.min_value \/ value > f.max_value

(* Setter: the field's bits for value (two's complement when signed).      *)
IntegerEncode(f, value) ==
    IF IntegerOutOfRange(f, value)
    THEN Raised
    ELSE Returned(value % (2 ^ f.width))

(* The value held by the field's bits in a raw register word.              *)
IntegerFromBits(f, bits) ==
    IF f.min_value < 0 /\ bits >= 2 ^ (f.width - 1)
    THEN bits - 2 ^ f.width
    ELSE bits

(* Getter: the value of the field's bits, checked against the range.       *)
IntegerDecode(f, bits) ==
    IF IntegerOutOfRange(f, IntegerFromBits(f, bits))
    THEN Raised
    ELSE Returned(IntegerFromBits(f, bits))

NoIntegerField == [min_value |-> 0, max_value |-> 0, width |-> 0]

NoIntegerCall == [op |-> "init", value |-> 0, raw |-> 0, raised |-> FALSE,
                  ret |-> 0]

IdleInteger ==
    /\ ifield = NoIntegerField
    /\ ilast = NoIntegerCall

(* ----------------------------- RegisterList --------------------------- *)
(* A register object of the list: a Register (one address, its index) or a *)
(* RegisterArray (base_index, length and the number of its registers).     *)
ListRegister(idx) ==
    [kind |-> "register", base_index |-> idx, length |-> 1, registers |-> 1]

ListArray(base, len) ==
    [kind |-> "array", base_index |-> base, length |-> len, registers |-> 0]

(* Register.index, or RegisterArray.index: the highest occupied address.   *)
ObjectIndex(o) == o.base_index + o.length * o.registers - 1

NextListIndex_AfterBase(objs) ==
    IF objs = <<>> THEN 0 ELSE objs[Len(objs)].base_index + 1

(* The address the next appended object starts at.                         *)
NextListIndex(objs) ==
    IF objs = <<>> THEN 0 ELSE ObjectIndex(objs[Len(objs)]) + 1

(* num_registers of the generated code.                                    *)
NumRegisters(objs) ==
    IF objs = <<>> THEN 0 ELSE ObjectIndex(objs[Len(objs)]) + 1

NoListCall == [op |-> "init"]

IdleList ==
    /\ register_objects = <<>>
    /\ llast = NoListCall

(* No enumeration class is being declared.                                 *)
IdleDecl ==
    /\ enum_base = "IntEnum"
    /\ etype = NoType

IdleArray ==
    /\ atomic = "none"
    /\ base_index = 0
    /\ length = 1
    /\ registers = <<>>
    /\ last = NoCall

IdleEnum ==
    /\ enum = <<>>
    /\ elast = NoEnumCall
    /\ field = NoField

Init ==
    /\ atomic \in AtomicValues
    /\ base_index \in 0..MaxBase
    /\ length \in 0..MaxLength
    /\ registers = <<>>
    /\ last = NoCall
    /\ IdleEnum
    /\ IdleDecl
    /\ IdleRegister
    /\ IdleInteger
    /\ IdleList

append_register(name, mode) ==
    /\ Len(registers) < MaxRegisters
    /\ registers' = RegistersAfterAppend(registers, atomic, name, mode)
    /\ last' = [op |-> "append_register", name |-> name, mode |-> mode,
                array_index |-> 0,
                raised |-> ModeConflict(registers, atomic, mode),
                ret |-> NewIndex(registers), before |-> registers]
    /\ UNCHANGED <<registerVars, integerVars, listVars,
                 atomic, base_index, length, enumVars, declVars>>

get_register(name) ==
    /\ last' = [op |-> "get_register", name |-> name, mode |-> "",
                array_index |-> 0,
                raised |-> ~FindRegister(registers, name).found,
                ret |-> FindRegister(registers, name).register.index,
                before |-> registers]
    /\ UNCHANGED <<registerVars, integerVars, listVars,
                 atomic, base_index, length, registers, enumVars, declVars>>

get_start_index(array_index) ==
    /\ last' = [op |-> "get_start_index", name |-> "", mode |-> "",
                array_index |-> array_index,
                raised |-> StartIndexRaises(array_index, length),
                ret |-> IF StartIndexRaises(array_index, length)
                        THEN 0
                        ELSE StartIndexValue(base_index, array_index,
                                             length, registers),
                before |-> registers]
    /\ UNCHANGED <<registerVars, integerVars, listVars,
                 atomic, base_index, length, registers, enumVars, declVars>>

Next ==
    \/ \E name \in Names, mode \in Modes : append_register(name, mode)
    \/ \E name \in Names : get_register(name)
    \/ \E array_index \in (0 - MaxNegativeIndex)..MaxArrayIndex :
            get_start_index(array_index)

Spec == Init /\ [][Next]_vars


(* ------------------- specification of the enumeration ------------------ *)
InitEnum ==
    /\ IdleArray
    /\ IdleDecl
    /\ IdleRegister
    /\ IdleInteger
    /\ IdleList
    /\ enum \in Enumerations
    /\ elast = NoEnumCall
    /\ field = NoField

Encode(value) ==
    LET r == convert_to_unsigned_binary(enum, enum_bit_width(enum), value)
    IN  /\ elast' = [op |-> "convert_to_unsigned_binary", value |-> value,
                     code |-> 0, raised |-> r.raised, ret |-> r.ret,
                     decoded |-> Member("", 0)]
        /\ UNCHANGED <<registerVars, integerVars, listVars,
                 arrayVars, enum, field, declVars>>

Decode(code) ==
    LET r == convert_from_unsigned_binary(enum, enum_bit_width(enum), code)
    IN  /\ elast' = [op |-> "convert_from_unsigned_binary",
                     value |-> Member("", 0), code |-> code,
                     raised |-> r.raised, ret |-> 0,
                     decoded |-> IF r.raised THEN Member("", 0) ELSE r.ret]
        /\ UNCHANGED <<registerVars, integerVars, listVars,
                 arrayVars, enum, field, declVars>>

(* convert_from_unsigned_binary(width, convert_to_unsigned_binary(width,   *)
(* value)), as test_enum_type composes them.                               *)
RoundTrip(value) ==
    LET w == enum_bit_width(enum)
        c == convert_to_unsigned_binary(enum, w, value)
        d == convert_from_unsigned_binary(enum, w, c.ret)
    IN  /\ elast' = [op |-> "round_trip", value |-> value, code |-> 0,
                     raised |-> c.raised \/ d.raised, ret |-> c.ret,
                     decoded |-> IF c.raised \/ d.raised
                                 THEN Member("", 0) ELSE d.ret]
        /\ UNCHANGED <<registerVars, integerVars, listVars,
                 arrayVars, enum, field, declVars>>

CreateEnumField(default_value) ==
    /\ field' = EnumField(enum, default_value)
    /\ elast' = [op |-> "EnumField", value |-> default_value, code |-> 0,
                 raised |-> FALSE, ret |-> 0, decoded |-> Member("", 0)]
    /\ UNCHANGED <<registerVars, integerVars, listVars,
                   arrayVars, enum, declVars>>

NextEnum ==
    \/ \E value \in Values(enum) : Encode(value)
    \/ \E code \in 0..MaxCode : Decode(code)
    \/ \E value \in Values(enum) : RoundTrip(value)
    \/ \E default_value \in Members(enum) : CreateEnumField(default_value)

SpecEnum == InitEnum /\ [][NextEnum]_vars


(* ------------ specification of the declaration of enumerations --------- *)
InitDeclare ==
    /\ IdleArray
    /\ enum_base \in {"IntEnum", "SequentialEnum"}
    /\ etype = NoType
    /\ IdleEnum
    /\ IdleRegister
    /\ IdleInteger
    /\ IdleList

(* One member line `X = ()` of a SequentialEnum class body (or one name of *)
(* the functional API).                                                    *)
DeclareSequentialMember ==
    /\ enum_base = "SequentialEnum"
    /\ etype = NoType
    /\ Len(enum) < MaxMembers
    /\ enum' = Append(enum, SequentialEnum_new(enum))
    /\ UNCHANGED <<registerVars, integerVars, listVars,
                 arrayVars, elast, field, enum_base, etype>>

(* One member line `X = value` of an IntEnum class body.                   *)
DeclareMember(value) ==
    /\ enum_base = "IntEnum"
    /\ etype = NoType
    /\ Len(enum) < MaxMembers
    /\ \A i \in 1..Len(enum) : enum[i] /= value
    /\ enum' = Append(enum, value)
    /\ UNCHANGED <<registerVars, integerVars, listVars,
                 arrayVars, elast, field, enum_base, etype>>

CreateEnumType ==
    /\ enum /= <<>>
    /\ etype' = EnumType(enum)
    /\ UNCHANGED <<registerVars, integerVars, listVars,
                 arrayVars, enumVars, enum_base>>

NextDeclare ==
    \/ DeclareSequentialMember
    \/ \E value \in EnumValues : DeclareMember(value)
    \/ CreateEnumType

SpecDeclare == InitDeclare /\ [][NextDeclare]_vars


(* --------------------- specification of the Register ------------------- *)
InitRegister ==
    /\ IdleArray
    /\ IdleEnum
    /\ IdleDecl
    /\ IdleRegister
    /\ IdleInteger
    /\ IdleList

append_bit_vector(name, width) ==
    /\ Len(fields) < MaxFields
    /\ fields' = FieldsAfterAppend(fields, name, width)
    /\ rlast' = [op |-> "append_bit_vector", name |-> name, width |-> width,
                 raised |-> AppendFieldRaises(fields, name, width),
                 before |-> fields]
    /\ UNCHANGED <<arrayVars, enumVars, declVars, integerVars, listVars>>

(* Register.append_enum builds an EnumField at the next free bit; its      *)
(* width is the enumeration's bit width.                                   *)
append_enum(name, e, default_value) ==
    LET f == EnumField(e, default_value)
    IN  /\ Len(fields) < MaxFields
        /\ fields' = FieldsAfterAppend(fields, name, f.width)
        /\ rlast' = [op |-> "append_enum", name |-> name, width |-> f.width,
                     raised |-> AppendFieldRaises(fields, name, f.width),
                     before |-> fields]
        /\ UNCHANGED <<arrayVars, enumVars, declVars, integerVars, listVars>>

NextRegister ==
    \/ \E name \in Names, width \in BitVectorWidths :
            append_bit_vector(name, width)
    \/ \E name \in Names, e \in RegisterEnums :
            \E default_value \in Members(e) : append_enum(name, e, default_value)

SpecRegister == InitRegister /\ [][NextRegister]_vars


(* ------------------ specification of the Integer field ----------------- *)
InitInteger ==
    /\ IdleArray
    /\ IdleEnum
    /\ IdleDecl
    /\ IdleRegister
    /\ ifield \in {Integer(r[1], r[2]) : r \in IntegerRanges}
    /\ ilast = NoIntegerCall
    /\ IdleList

IntegerInputs ==
    ((ifield.min_value - MaxExcess)..(ifield.max_value + MaxExcess))
        \cup FarValues

set_integer(value) ==
    LET r == IntegerEncode(ifield, value)
    IN  /\ ilast' = [op |-> "set", value |-> value, raw |-> r.ret,
                     raised |-> r.raised, ret |-> 0]
        /\ UNCHANGED <<arrayVars, enumVars, declVars, registerVars, ifield,
                       listVars>>

get_integer(bits) ==
    LET r == IntegerDecode(ifield, bits)
    IN  /\ ilast' = [op |-> "get", value |-> 0, raw |-> bits,
                     raised |-> r.raised, ret |-> r.ret]
        /\ UNCHANGED <<arrayVars, enumVars, declVars, registerVars, ifield,
                       listVars>>

set_then_get_integer(value) ==
    LET r == IntegerEncode(ifield, value)
        g == IF r.raised THEN Raised ELSE IntegerDecode(ifield, r.ret)
    IN  /\ ilast' = [op |-> "set_get", value |-> value, raw |-> r.ret,
                     raised |-> g.raised, ret |-> g.ret]
        /\ UNCHANGED <<arrayVars, enumVars, declVars, registerVars, ifield,
                       listVars>>

NextInteger ==
    \/ \E value \in IntegerInputs : set_integer(value)
    \/ \E bits \in 0..(2 ^ ifield.width - 1) : get_integer(bits)
    \/ \E value \in IntegerInputs : set_then_get_integer(value)

SpecInteger == InitInteger /\ [][NextInteger]_vars


(* ------------------- specification of the RegisterList ----------------- *)
InitList ==
    /\ IdleArray
    /\ IdleEnum
    /\ IdleDecl
    /\ IdleRegister
    /\ IdleInteger
    /\ IdleList

list_append_register ==
    /\ Len(register_objects) < MaxObjects
    /\ register_objects' =
          Append(register_objects,
                 ListRegister(NextListIndex(register_objects)))
    /\ llast' = [op |-> "append_register"]
    /\ UNCHANGED <<arrayVars, enumVars, declVars, registerVars, integerVars>>

list_append_register_array(len) ==
    /\ Len(register_objects) < MaxObjects
    /\ register_objects' =
          Append(register_objects,
                 ListArray(NextListIndex(register_objects), len))
    /\ llast' = [op |-> "append_register_array"]
    /\ UNCHANGED <<arrayVars, enumVars, declVars, registerVars, integerVars>>

(* RegisterArray.append_register on the array that append_register_array   *)
(* has just returned: the array is filled before the next object is        *)
(* appended to the list.                                                   *)
array_append_register ==
    /\ register_objects /= <<>>
    /\ register_objects[Len(register_objects)].kind = "array"
    /\ register_objects[Len(register_objects)].registers < MaxRegisters
    /\ register_objects' =
          [register_objects EXCEPT ![Len(register_objects)].registers = @ + 1]
    /\ llast' = [op |-> "array.append_register"]
    /\ UNCHANGED <<arrayVars, enumVars, declVars, registerVars, integerVars>>

NextList ==
    \/ list_append_register
    \/ \E len \in 1..MaxLength : list_append_register_array(len)
    \/ array_append_register

SpecList == InitList /\ [][NextList]_vars

(* ====================== properties of RegisterArray ==================== *)

AtomicPolicyIsRowOrAll == atomic \in {"row", "all"}

(* C1: append_register raises exactly when the array already holds a      *)
(* register, the atomic policy is 'row' or 'all', and the new mode differs *)
(* from the first register's mode; otherwise it appends exactly one        *)
(* register carrying the given name and mode.                              *)
C1_AppendFailsIffModeConflict ==
    last.op = "append_register" =>
        /\ last.raised <=>
              /\ Len(last.before) >= 1
              /\ AtomicPolicyIsRowOrAll
              /\ last.mode /= Head(last.before).mode
        /\ last.raised => registers = last.before
        /\ ~last.raised =>
              /\ Len(registers) = Len(last.before) + 1
              /\ SubSeq(registers, 1, Len(last.before)) = last.before
              /\ registers[Len(registers)].name = last.name
              /\ registers[Len(registers)].mode = last.mode

C1_Witness ==
    /\ last.op = "append_register"
    /\ last.raised
    /\ Len(last.before) >= 1
    /\ atomic = "row"

(* C2: with atomic policy 'row' or 'all', all registers of the array have  *)
(* the same mode in every reachable state.                                 *)
C2_AtomicArrayHasUniformMode ==
    AtomicPolicyIsRowOrAll =>
        \A i, j \in 1..Len(registers) : registers[i].mode = registers[j].mode

C2_Witness ==
    /\ atomic = "row"
    /\ Len(registers) >= 2
    /\ last.op = "append_register"
    /\ ~last.raised

(* C3: get_start_index raises for every array_index outside [0, length),   *)
(* negative indices included.                                              *)
C3_StartIndexRejectsOutOfRange ==
    (/\ last.op = "get_start_index"
     /\ (last.array_index < 0 \/ last.array_index >= length))
        => last.raised

(* C4: for 0 <= array_index < length, get_start_index returns              *)
(* base_index + array_index * (number of registers).                       *)
C4_StartIndexValue ==
    (/\ last.op = "get_start_index"
     /\ 0 <= last.array_index
     /\ last.array_index < length)
        => /\ ~last.raised
           /\ last.ret = base_index + last.array_index * Len(registers)

C4_Witness ==
    /\ last.op = "get_start_index"
    /\ length = 3
    /\ Len(registers) = 2
    /\ last.array_index = 2
    /\ ~last.raised
    /\ last.ret = base_index + 4

Slots == (0..(length - 1)) \X (1..Len(registers))

Address(i, k) == base_index + i * Len(registers) + registers[k].index

Addresses == {Address(s[1], s[2]) : s \in Slots}

(* C5: the k-th appended register has index k (0-based); the addresses of  *)
(* all repetitions' registers are pairwise distinct and are exactly the    *)
(* contiguous range [base_index, index].                                   *)
C5_AddressesContiguous ==
    /\ \A k \in 1..Len(registers) : registers[k].index = k - 1
    /\ \A s, t \in Slots :
          Address(s[1], s[2]) = Address(t[1], t[2]) => s = t
    /\ Addresses = base_index..index

C5_Witness ==
    /\ Len(registers) = 2
    /\ length = 3
    /\ index = base_index + 5

(* C6: appending a register whose name is already used in the array        *)
(* raises, so no two registers of the array share a name.                  *)
C6_NamesUnique ==
    /\ \A i, j \in 1..Len(registers) :
          registers[i].name = registers[j].name => i = j
    /\ (/\ last.op = "append_register"
        /\ \E i \in 1..Len(last.before) : last.before[i].name = last.name)
          => last.raised

(* C7: a call that raises leaves registers, base_index, length, atomic     *)
(* and index unchanged.                                                    *)
C7_RaiseHasNoSideEffect ==
    [][last'.raised =>
          /\ registers' = registers
          /\ base_index' = base_index
          /\ length' = length
          /\ atomic' = atomic
          /\ index' = index]_vars

C7_Witness ==
    /\ last.op = "append_register"
    /\ last.raised
    /\ Len(registers) >= 2

(* ====================== properties of enumerations ===================== *)

(* C8: convert_to_unsigned_binary maps the members one-to-one onto         *)
(* 0 .. member_count-1 in declaration order (not by declared value), and   *)
(* convert_from_unsigned_binary is its inverse.                            *)
C8_EncodeIsOrdinalBijection ==
    /\ (/\ elast.op = "convert_to_unsigned_binary"
        /\ elast.value \in Members(enum))
          => /\ ~elast.raised
             /\ elast.ret \in 0..(Len(enum) - 1)
             /\ enum[elast.ret + 1] = elast.value.value
    /\ (/\ elast.op = "convert_from_unsigned_binary"
        /\ elast.code < Len(enum))
          => /\ ~elast.raised
             /\ elast.decoded = Member("E", enum[elast.code + 1])
    /\ (/\ elast.op = "round_trip"
        /\ elast.value \in Members(enum))
          => /\ ~elast.raised
             /\ elast.decoded = elast.value
    /\ enum /= <<>> =>
          {convert_to_unsigned_binary(enum, enum_bit_width(enum), m).ret :
              m \in Members(enum)} = 0..(Len(enum) - 1)

C8_Witness ==
    /\ enum = <<2, 3, 6, 12>>
    /\ elast.op = "round_trip"
    /\ elast.value = Member("E", 12)
    /\ elast.ret = 3
    /\ elast.decoded = Member("E", 12)

(* C9: decoding a code >= member_count raises, and encoding a member of    *)
(* a different enumeration raises even when its integer equals the         *)
(* integer of a member of the declared enumeration.                        *)
C9_InvalidConversionRaises ==
    /\ (/\ elast.op = "convert_from_unsigned_binary"
        /\ elast.code >= Len(enum))
          => elast.raised
    /\ (/\ elast.op = "convert_to_unsigned_binary"
        /\ elast.value.cls = "other")
          => elast.raised

C9_Witness ==
    /\ elast.op = "convert_to_unsigned_binary"
    /\ elast.value.cls = "other"
    /\ \E i \in 1..Len(enum) : enum[i] = elast.value.value
    /\ elast.raised

(* C10: the width of an enumeration field is ceil(log2(member_count)),     *)
(* at least 1, whatever the members' declared values: {2,3,6,12} gives 2,  *)
(* three sequential members give 2, a single member gives 1.               *)
C10_EnumFieldWidth ==
    field /= NoField =>
        /\ field.width >= 1
        /\ 2 ^ field.width >= Len(enum)
        /\ field.width > 1 => 2 ^ (field.width - 1) < Len(enum)
        /\ enum = <<2, 3, 6, 12>> => field.width = 2
        /\ enum = <<0, 1, 2>> => field.width = 2
        /\ Len(enum) = 1 => field.width = 1

C10_Witness ==
    /\ enum = <<2, 3, 6, 12>>
    /\ field /= NoField
    /\ field.width = 2

(* C11: a SequentialEnum with n members gives them the values 0 .. n-1 in  *)
(* declaration order, so they are distinct and its EnumType is sequential; *)
(* an enumeration whose values are not exactly 0 .. n-1 in order (such as  *)
(* 2, 3, 6, 12) is not sequential.                                         *)
C11_SequentialEnumValues ==
    /\ enum_base = "SequentialEnum" =>
          /\ \A i \in 1..Len(enum) : enum[i] = i - 1
          /\ Injective(enum)
          /\ etype /= NoType => etype.is_sequential
    /\ (/\ etype /= NoType
        /\ \E i \in 1..Len(enum) : enum[i] /= i - 1)
          => ~etype.is_sequential
    /\ (etype /= NoType /\ enum = <<2, 3, 6, 12>>) => ~etype.is_sequential

C11_Witness ==
    /\ enum_base = "SequentialEnum"
    /\ enum = <<0, 1, 2, 3>>
    /\ etype /= NoType
    /\ etype.is_sequential

(* ======================== properties of Register ======================= *)

RECURSIVE SumWidths(_)
SumWidths(flds) ==
    IF flds = <<>> THEN 0 ELSE flds[1].width + SumWidths(Tail(flds))

Bits(f) == f.base_index..(f.base_index + f.width - 1)

IsFieldAppend == rlast.op \in {"append_bit_vector", "append_enum"}

(* C12: appending a field whose name already exists in the register        *)
(* raises (for every typed append), so all field names within a register   *)
(* are distinct.                                                           *)
C12_FieldNamesUnique ==
    /\ (/\ IsFieldAppend
        /\ \E i \in 1..Len(rlast.before) : rlast.before[i].name = rlast.name)
          => rlast.raised
    /\ \A i, j \in 1..Len(fields) : fields[i].name = fields[j].name => i = j

(* C13: every field starts at the first bit after the last occupied bit    *)
(* (the first at 0, the next at the sum of the preceding widths), fields   *)
(* are ordered by base_index, share no bit and end within the 32 bits; an  *)
(* append that would make the total width exceed 32 raises and adds no     *)
(* field.                                                                  *)
C13_FieldPlacement ==
    /\ \A i \in 1..Len(fields) :
          /\ fields[i].base_index = SumWidths(SubSeq(fields, 1, i - 1))
          /\ fields[i].base_index + fields[i].width <= 32
    /\ \A i, j \in 1..Len(fields) :
          i < j => /\ fields[i].base_index < fields[j].base_index
                   /\ Bits(fields[i]) \cap Bits(fields[j]) = {}
    /\ (/\ IsFieldAppend
        /\ SumWidths(rlast.before) + rlast.width > 32)
          => /\ rlast.raised
             /\ fields = rlast.before
    /\ (IsFieldAppend /\ ~rlast.raised) =>
          /\ Len(fields) = Len(rlast.before) + 1
          /\ fields[Len(fields)].width = rlast.width

C13_Witness ==
    /\ IsFieldAppend
    /\ rlast.raised
    /\ SumWidths(fields) = 32
    /\ Len(fields) = 4

(* ====================== properties of Integer fields =================== *)

InRange(v) == ifield.min_value <= v /\ v <= ifield.max_value

(* The value a raw field holds: its bits read as two's complement when the *)
(* range has negative values, as a plain binary number otherwise.          *)
RawValue(bits) ==
    IF ifield.min_value >= 0 \/ bits < 2 ^ (ifield.width - 1)
    THEN bits
    ELSE bits - 2 ^ ifield.width

(* C14: for an Integer field with range [min_value, max_value], every      *)
(* value inside the range is accepted by the setter and the getter and     *)
(* round-trips, and every value outside it is rejected both when set and   *)
(* when read back from a raw register word.                                *)
C14_IntegerRangeChecked ==
    /\ ilast.op = "set" => (ilast.raised <=> ~InRange(ilast.value))
    /\ ilast.op = "get" => /\ ilast.raised <=> ~InRange(RawValue(ilast.raw))
                           /\ ~ilast.raised => ilast.ret = RawValue(ilast.raw)
    /\ ilast.op = "set_get" =>
          /\ ilast.raised <=> ~InRange(ilast.value)
          /\ ~ilast.raised => ilast.ret = ilast.value
    /\ (ifield.min_value = 0 - 50 /\ ifield.max_value = 100) =>
          /\ (ilast.op = "set" /\ ilast.value \in {0 - 1024, 110})
                => ilast.raised
          /\ (ilast.op = "get" /\ ilast.raw = 100) => ~ilast.raised
          /\ (ilast.op = "get" /\ ilast.raw \in {101, 256 - 51})
                => ilast.raised
    /\ (ifield.min_value = 1 /\ ifield.max_value = 256) =>
          /\ (ilast.op = "set_get" /\ ilast.value = 256)
                => (~ilast.raised /\ ilast.ret = 256)
          /\ (ilast.op = "set_get" /\ ilast.value = 257) => ilast.raised

C14_Witness ==
    /\ ifield.min_value = 1
    /\ ifield.max_value = 256
    /\ ilast.op = "set_get"
    /\ ilast.value = 256
    /\ ~ilast.raised
    /\ ilast.ret = 256

(* ======================= properties of RegisterList ==================== *)

ObjectSize(o) == o.length * o.registers

ObjectRange(o) == o.base_index..(o.base_index + ObjectSize(o) - 1)

RECURSIVE TotalSize(_)
TotalSize(objs) ==
    IF objs = <<>> THEN 0 ELSE ObjectSize(objs[1]) + TotalSize(Tail(objs))

IsFloatEncode ==
    /\ elast.op \in {"convert_to_unsigned_binary", "round_trip"}
    /\ elast.value.cls = "float"

(* The member the code of the last successful encoding stands for.         *)
EncodedValue == enum[elast.ret + 1]

Distance(a, b) == IF a >= b THEN a - b ELSE b - a

RECURSIVE ParseBinary(_)
(* int(digits, 2)                                                          *)
ParseBinary(digits) ==
    IF digits = <<>>
    THEN 0
    ELSE 2 * ParseBinary(SubSeq(digits, 1, Len(digits) - 1))
            + digits[Len(digits)]

(* C17: the default_value of an EnumField is the binary string of the      *)
(* default member's declared integer value, zero-padded to the field       *)
(* width: int(default_value, 2) is the declared value (member A = 2 in a   *)
(* 2-bit field gives a default that parses to 2).                          *)
C17_DefaultIsDeclaredValue ==
    elast.op = "EnumField" =>
        /\ \A i \in 1..Len(field.default_value) :
              field.default_value[i] \in {0, 1}
        /\ ParseBinary(field.default_value) = elast.value.value
        /\ Len(field.default_value) >= field.width
        /\ Len(field.default_value) > field.width
              => field.default_value[1] = 1
        /\ (enum = <<2, 3, 6, 12>> /\ elast.value = Member("E", 2))
              => /\ field.width = 2
                 /\ field.default_value = <<1, 0>>

C17_Witness ==
    /\ enum = <<2, 3, 6, 12>>
    /\ elast.op = "EnumField"
    /\ elast.value = Member("E", 2)
    /\ field.width = 2
    /\ ParseBinary(field.default_value) = 2

(* C18: the default_value of an EnumField has exactly width characters and *)
(* decodes, through convert_from_unsigned_binary at that width, to the     *)
(* member chosen as default.                                               *)
C18_DefaultDecodesToMember ==
    elast.op = "EnumField" =>
        /\ Len(field.default_value) = field.width
        /\ convert_from_unsigned_binary(
               enum, field.width, ParseBinary(field.default_value))
             = Returned(elast.value)

====
